---- MODULE Spec2Model ----
(***************************************************************************)
(* Model of the IndexedDB benchmark harness: the directory walk, the       *)
(* batched write and read benchmarks (benchmarks.ts), the two store        *)
(* adapters (indexeddb.ts over the raw API, idb.ts over the wrapper        *)
(* library) and the suite runner of App.tsx.                               *)
(***************************************************************************)
EXTENDS Integers, Sequences, FiniteSets, TLC

\* ------------------------------------------------------------------ bounds

\* The batch threshold of both adapters, scaled down from 500.
BATCH_SIZE == 2

\* performance.now() readings range over 0..MaxClock.
MaxClock == 1

\* Direct calls of the benchmark functions made in one behaviour of SpecBench.
MaxCalls == 2

\* Platform failures (file, directory, transaction) injected in one
\* behaviour; in one call, where the history of the previous call is kept.
MaxFailures == 1

\* Drop events in one behaviour of Spec.
MaxDrops == 2

\* Direct calls of the adapter functions made in one behaviour of SpecAdapter.
MaxAdapterCalls == 3

\* ------------------------------------------------------- file-system entries

\* A FileSystemFileEntry: entry.file() yields a File with this name and size.
FileEntry(name, size) ==
  [isFile |-> TRUE, isDirectory |-> FALSE, name |-> name, size |-> size]

\* A FileSystemDirectoryEntry: its reader hands out `pages` one readEntries
\* call at a time, then an empty page.
DirEntry(name, pages) ==
  [isFile |-> FALSE, isDirectory |-> TRUE, name |-> name, pages |-> pages]

fA == FileEntry("a", 10)
fB == FileEntry("b", 20)
fC == FileEntry("c", 30)
fD == FileEntry("d", 0)
fE == FileEntry("e", 5)
fA2 == FileEntry("a", 4)
dEmpty == DirEntry("x", <<>>)
dOne == DirEntry("y", << <<fC, fD>> >>)
dPaged == DirEntry("z", << <<fB>>, <<dOne, fA>> >>)

\* The root entries a direct caller of a benchmark function can supply.
RootChoices ==
  { <<>>,
    <<fA, fB, fC>>,
    <<dPaged, fE>>,
    <<dEmpty, fA, dOne, fB>>,
    <<fA, fA2>> }

\* The root entries of a drop event on the drop zone.
DropChoices ==
  { <<>>,
    <<fA, fB, fC>>,
    <<dOne, fA>>,
    <<fA, fA2>> }

\* Names in the order IndexedDB sorts the keys "file-" + name.
NameOrder == <<"a", "b", "c", "d", "e">>

Impls == {"IndexedDB", "IDB"}

\* The files an earlier session has left in an object store.
StoredFiles == <<[name |-> "a", size |-> 10], [name |-> "b", size |-> 20],
                 [name |-> "c", size |-> 30]>>

\* implementation: useIDB ? 'IDB' : 'IndexedDB'
ImplOf(useIDB) == IF useIDB THEN "IDB" ELSE "IndexedDB"

VARIABLES
  db,            \* per adapter module: is the module-level handle non-null
  store,         \* per database: the object store 'files', key -> File
  now,           \* the last reading of performance.now()
  pc,            \* where the benchmark call in progress is suspended
  call,          \* the benchmark call in progress: kind, useIDB, legacy, entries
  benchmark,     \* the BenchmarkResult of the call
  queue,         \* the traversal queue
  currentBatch,  \* the pending batch of the write benchmark
  entry,         \* the entry whose platform call is awaited
  reader,        \* readDirectoryEntries: pages read so far and entries collected
  keys,          \* the key list of the read benchmark
  readResults,   \* batchReadFromIndexedDB: the values collected so far (results)
  i,             \* batchReadFromIndexedDB: start of the chunk in flight (0-based)
  txLog,         \* history: the transactions the call has opened, with outcome
  visited,       \* history: the entries popped from the queue, in order
  counted,       \* history: the sizes of the files counted into fileCount
  fileErrs,      \* history: errorCount increments made while handling a file node
  failed,        \* history: the positions in visited of the entries whose call rejected
  hist,          \* history kept for claims about two calls in a row, when on
  handleHist,    \* history: the adapters whose handle has been opened, and the
                 \* direct deleteDB calls that have resolved: the handle state
                 \* each found, and whether the store held records
  mount,         \* App: where the onMount callback stands
  isProcessing,  \* App: the isProcessing signal
  results,       \* App: the results signal, benchmark id -> result or Null
  suite,         \* App: handleDrop in progress: its position and rootEntries
  logged,        \* App: the benchmarks whose exception the suite loop logged
  nDrops,        \* App: drop events so far
  nCalls,        \* direct calls made so far
  nFail          \* failures injected so far

\* The state of the benchmark functions and the adapters.
benchVars ==
  <<db, store, now, pc, call, benchmark, queue, currentBatch, entry, reader,
    keys, readResults, i, txLog, visited, counted, fileErrs, failed, hist,
    handleHist, nCalls, nFail>>

\* The state of the App component.
appVars == <<mount, isProcessing, results, suite, logged, nDrops>>

vars == <<benchVars, appVars>>

\* ------------------------------------------------------------ pure helpers

Min(a, b) == IF a < b THEN a ELSE b

\* getFileFromEntry: the File object entry.file() resolves with.
FileOf(e) == [name |-> e.name, size |-> e.size]

\* Mutant: the key leaves out the name of the file.
KeyNoName(file) == "file-"

\* const key = `file-${file.name}`
Key(file) == "file-" \o file.name

\* Mutant: of the files of a call that share a key the first one is kept.
PutAllFirstWins(st, files) ==
  LET ks == {Key(files[k]) : k \in 1..Len(files)}
      first(key) == CHOOSE k \in 1..Len(files) :
                      /\ Key(files[k]) = key
                      /\ \A j \in 1..(k - 1) : Key(files[j]) # key
  IN [key \in DOMAIN st \cup ks |->
        IF key \in ks THEN files[first(key)] ELSE st[key]]

\* The for loop of batchSaveToIndexedDB: store.put(file, key) for each file,
\* in order; a later put of the same key replaces the earlier one.
RECURSIVE PutAll(_, _)
PutAll(st, files) ==
  IF files = <<>> THEN st
  ELSE PutAll((Key(Head(files)) :> Head(files)) @@ st, Tail(files))

\* store.getAllKeys(): the keys of the object store in ascending key order.
GetAllKeysOf(st) ==
  LET all == [n \in 1..Len(NameOrder) |-> "file-" \o NameOrder[n]]
  IN SelectSeq(all, LAMBDA k : k \in DOMAIN st)

\* keys.slice(i, i + batchSize), i counted from 0.
Slice(s, from, to) == SubSeq(s, from + 1, Min(to, Len(s)))

\* A key that is a number, not a string: the number 7, written as TLA+
\* writes every key of the model.
NumberKey == "7"

\* typeof key
TypeOf(key) == IF key = NumberKey THEN "number" ELSE "string"

\* The result of a get request that finds no record.
UndefinedValue == [undefined |-> TRUE]

\* store.get(key): the record stored under the key, or undefined.
StoreGet(st, key) == IF key \in DOMAIN st THEN st[key] ELSE UndefinedValue

\* if (request.result) / !!result: a stored File is truthy, undefined is not.
Truthy(v) == v # UndefinedValue

\* Mutant: the results of the get requests are kept whether or not a record
\* was found.
GetChunkUnfiltered(impl, st, batchKeys) ==
  [n \in 1..Len(batchKeys) |-> StoreGet(st, batchKeys[n])]

\* One chunk of batchReadFromIndexedDB: a get request for each key of the
\* chunk, in order, keeping the results that are truthy. idb.ts issues the
\* request only for a key that is a string and takes undefined for any other.
GetChunk(impl, st, batchKeys) ==
  LET got == [n \in 1..Len(batchKeys) |->
                IF impl = "IDB" /\ TypeOf(batchKeys[n]) # "string"
                THEN UndefinedValue
                ELSE StoreGet(st, batchKeys[n])]
  IN SelectSeq(got, Truthy)

\* The fresh BenchmarkResult of a call started at time t.
NewBenchmark(t, impl) ==
  [startTime |-> t, endTime |-> 0, duration |-> 0, fileCount |-> 0,
   totalSize |-> 0, errorCount |-> 0, dirCount |-> 0, implementation |-> impl]

\* Mutant: the duration is taken from the end time alone.
StampNoStart(b, t) == [b EXCEPT !.endTime = t, !.duration = t]

\* The finally block: endTime = performance.now(); duration = endTime - startTime.
Stamp(b, t) == [b EXCEPT !.endTime = t, !.duration = t - b.startTime]

\* Mutant: a file is counted and its size is left out of the total.
CountFileNoSize(b, file) == [b EXCEPT !.fileCount = @ + 1]

\* benchmark.fileCount++; benchmark.totalSize += file.size
CountFile(b, file) ==
  [b EXCEPT !.fileCount = @ + 1, !.totalSize = @ + file.size]

\* The counting loop of the read benchmark over the files read back.
RECURSIVE CountFiles(_, _)
CountFiles(b, files) ==
  IF files = <<>> THEN b
  ELSE CountFiles(CountFile(b, Head(files)), Tail(files))

\* benchmark.errorCount++ of a catch block.
CountError(b) == [b EXCEPT !.errorCount = @ + 1]

\* benchmark.dirCount++
CountDir(b) == [b EXCEPT !.dirCount = @ + 1]

\* Mutant: the batch is flushed only once it has outgrown the threshold.
ShouldFlushLate(batch) == Len(batch) > BATCH_SIZE

\* if (currentBatch.length >= batchSize)
ShouldFlush(batch) == Len(batch) >= BATCH_SIZE

\* if (!db || files.length === 0) return: does a batchSave call open a
\* transaction at all.
SaveOpensTx(impl, files) == db[impl] /\ Len(files) > 0

\* A transaction as txLog records it.
Tx(mode, n) == [mode |-> mode, n |-> n, outcome |-> "pending"]

\* txLog with the outcome of the transaction in flight (the last) filled in.
Settle(log, outcome) == [log EXCEPT ![Len(log)].outcome = outcome]

\* ------------------------------------------------- the frame of a benchmark

NoEntry == [isFile |-> FALSE, isDirectory |-> FALSE]
NoReader == [page |-> 0, entries |-> <<>>]

Impl == ImplOf(call.useIDB)

\* The locals of the running call, the history of the call and the clock.
Frame(p, b, q, batch, e, r, log, seen, t) ==
  /\ pc' = p
  /\ benchmark' = b
  /\ queue' = q
  /\ currentBatch' = batch
  /\ entry' = e
  /\ reader' = r
  /\ txLog' = log
  /\ visited' = seen
  /\ now' = t

\* The finally block runs and the call ends with `outcome`; t0 is the clock
\* reading so far, and the next reading is no earlier.
Finish(kind, b, outcome, log, seen, t0) ==
  \E t \in t0..MaxClock :
    Frame(outcome, Stamp(b, t), <<>>, <<>>, NoEntry, NoReader, log, seen, t)

\* An exception leaves the try block: benchmarks.ts rethrows it after the
\* finally block; the older benchmarks file returns from inside finally, which
\* discards the exception.
Throw(c, b, log, seen, t0) ==
  Finish(c.kind, b, IF c.legacy THEN "returned" ELSE "thrown", log, seen, t0)

\* After the while loop: save any remaining files in the last batch.
AfterLoop(c, b, batch, log, seen, t0) ==
  IF c.kind = "write" /\ Len(batch) > 0 /\ SaveOpensTx(ImplOf(c.useIDB), batch)
  THEN Frame("finalFlush", b, <<>>, batch, NoEntry, NoReader,
             Append(log, Tx("readwrite", Len(batch))), seen, t0)
  ELSE Finish(c.kind, b, "returned", log, seen, t0)

\* Mutant: the walk takes the entry at the back of the queue.
LoopLifo(c, b, q, batch, log, seen, t0) ==
  IF q # <<>>
  THEN LET e == q[Len(q)]
           rest == SubSeq(q, 1, Len(q) - 1) IN
       IF e.isFile
       THEN Frame("getFile", b, rest, batch, e, NoReader, log,
                  Append(seen, e), t0)
       ELSE Frame("readDir", CountDir(b), rest, batch, e, NoReader, log,
                  Append(seen, e), t0)
  ELSE AfterLoop(c, b, batch, log, seen, t0)

\* The top of while (queue.length > 0): shift the next entry and start its
\* platform call, or leave the loop. Every entry is a file or a directory.
Loop(c, b, q, batch, log, seen, t0) ==
  IF q # <<>>
  THEN LET e == Head(q) IN
       IF e.isFile
       THEN Frame("getFile", b, Tail(q), batch, e, NoReader, log,
                  Append(seen, e), t0)
       ELSE Frame("readDir", CountDir(b), Tail(q), batch, e, NoReader, log,
                  Append(seen, e), t0)
  ELSE AfterLoop(c, b, batch, log, seen, t0)

\* What a call leaves behind for the next one to be compared with: the call,
\* how it ended, its result and history, and the stores as it found them.
Snapshot ==
  [call |-> call, pc |-> pc, benchmark |-> benchmark, counted |-> counted,
   txLog |-> txLog, visited |-> visited, failed |-> failed,
   store0 |-> IF hist.on THEN hist.store0 ELSE store]

\* A benchmark function is called: its body up to the first suspension.
Begin(kind, useIDB, legacy, entries) ==
  \E t \in now..MaxClock :
    LET c == [kind |-> kind, useIDB |-> useIDB, legacy |-> legacy,
              entries |-> entries]
        b == NewBenchmark(t, IF kind = "loop" THEN "none" ELSE ImplOf(useIDB))
    IN /\ call' = c
       /\ counted' = <<>>
       /\ fileErrs' = 0
       /\ failed' = {}
       /\ hist' = IF hist.on
                  THEN [on |-> TRUE, store0 |-> store, prev |-> Snapshot]
                  ELSE hist
       /\ keys' = <<>>
       /\ readResults' = <<>>
       /\ i' = 0
       /\ IF kind = "read"
          THEN IF db[ImplOf(useIDB)]
               THEN Frame("keys", b, <<>>, <<>>, NoEntry, NoReader,
                          <<Tx("readonly", 0)>>, <<>>, t)
               ELSE Finish(kind, CountFiles(b, <<>>), "returned", <<>>, <<>>, t)
          ELSE Loop(c, b, entries, <<>>, <<>>, <<>>, t)

\* A failure may still be injected.
MayFail == nFail < MaxFailures

\* ------------------------------------------------------ the directory walk

\* Mutant: the loop-only benchmark counts the file and leaves its size out.
GetFileSuccessLoopUnsized ==
  /\ pc = "getFile"
  /\ LET file == FileOf(entry)
         b == IF call.kind = "loop"
              THEN [benchmark EXCEPT !.fileCount = @ + 1]
              ELSE CountFile(benchmark, file)
         batch == Append(currentBatch, file)
     IN /\ counted' = Append(counted, file.size)
        /\ IF call.kind = "write"
           THEN IF ShouldFlush(batch)
                THEN IF SaveOpensTx(Impl, batch)
                     THEN Frame("flush", b, queue, batch, entry, NoReader,
                                Append(txLog, Tx("readwrite", Len(batch))),
                                visited, now)
                     ELSE Loop(call, b, queue, <<>>, txLog, visited, now)
                ELSE Loop(call, b, queue, batch, txLog, visited, now)
           ELSE Loop(call, b, queue, currentBatch, txLog, visited, now)
  /\ UNCHANGED <<appVars, handleHist, hist, failed, db, store, call, keys, readResults, i,
                 fileErrs, nCalls, nFail>>

\* entry.file(resolve, reject) calls resolve.
GetFileSuccess ==
  /\ pc = "getFile"
  /\ LET file == FileOf(entry)
         b == CountFile(benchmark, file)
         batch == Append(currentBatch, file)
     IN /\ counted' = Append(counted, file.size)
        /\ IF call.kind = "write"
           THEN IF ShouldFlush(batch)
                THEN IF SaveOpensTx(Impl, batch)
                     THEN Frame("flush", b, queue, batch, entry, NoReader,
                                Append(txLog, Tx("readwrite", Len(batch))),
                                visited, now)
                     ELSE Loop(call, b, queue, <<>>, txLog, visited, now)
                ELSE Loop(call, b, queue, batch, txLog, visited, now)
           ELSE Loop(call, b, queue, currentBatch, txLog, visited, now)
  /\ UNCHANGED <<appVars, handleHist, hist, failed, db, store, call, keys, readResults, i,
                 fileErrs, nCalls, nFail>>

\* entry.file(resolve, reject) calls reject: the catch of the file branch.
GetFileError ==
  /\ pc = "getFile"
  /\ MayFail
  /\ nFail' = nFail + 1
  /\ fileErrs' = fileErrs + 1
  /\ failed' = failed \cup {Len(visited)}
  /\ Loop(call, CountError(benchmark), queue, currentBatch, txLog, visited, now)
  /\ UNCHANGED <<appVars, handleHist, hist, db, store, call, keys, readResults, i,
                 counted, nCalls>>

\* Mutant: readEntries is called once and its first page taken for the whole
\* listing.
ReadEntriesOnePage ==
  /\ pc = "readDir"
  /\ Loop(call, benchmark,
          queue \o (IF entry.pages = <<>> THEN <<>> ELSE entry.pages[1]),
          currentBatch, txLog, visited, now)
  /\ UNCHANGED <<appVars, handleHist, hist, failed, db, store, call, keys, readResults, i,
                 counted, fileErrs, nCalls, nFail>>

\* reader.readEntries calls its success callback with the next page, or with
\* an empty page once the pages are used up.
ReadEntriesSuccess ==
  /\ pc = "readDir"
  /\ LET k == reader.page + 1 IN
     IF k <= Len(entry.pages)
     THEN Frame("readDir", benchmark, queue, currentBatch, entry,
                [page |-> k, entries |-> reader.entries \o entry.pages[k]],
                txLog, visited, now)
     ELSE Loop(call, benchmark, queue \o reader.entries, currentBatch, txLog,
               visited, now)
  /\ UNCHANGED <<appVars, handleHist, hist, failed, db, store, call, keys, readResults, i,
                 counted, fileErrs, nCalls, nFail>>

\* Mutant: the directory branch has no catch of its own, so a failed
\* enumeration ends the run.
ReadEntriesErrorAborts ==
  /\ pc = "readDir"
  /\ MayFail
  /\ nFail' = nFail + 1
  /\ failed' = failed \cup {Len(visited)}
  /\ Throw(call, benchmark, txLog, visited, now)
  /\ UNCHANGED <<appVars, handleHist, hist, db, store, call, keys, readResults, i,
                 counted, fileErrs, nCalls>>

\* Mutant: a failed enumeration hands over the pages it had received.
ReadEntriesErrorKeepsPages ==
  /\ pc = "readDir"
  /\ MayFail
  /\ nFail' = nFail + 1
  /\ failed' = failed \cup {Len(visited)}
  /\ Loop(call, CountError(benchmark), queue \o reader.entries, currentBatch,
          txLog, visited, now)
  /\ UNCHANGED <<appVars, handleHist, hist, db, store, call, keys, readResults, i,
                 counted, fileErrs, nCalls>>

\* reader.readEntries calls reject: the catch of the directory branch.
ReadEntriesError ==
  /\ pc = "readDir"
  /\ MayFail
  /\ nFail' = nFail + 1
  /\ failed' = failed \cup {Len(visited)}
  /\ Loop(call, CountError(benchmark), queue, currentBatch, txLog, visited, now)
  /\ UNCHANGED <<appVars, handleHist, hist, db, store, call, keys, readResults, i,
                 counted, fileErrs, nCalls>>

\* ------------------------------------------------------- write transactions

\* A transaction that fires neither complete nor error leaves the promise of
\* the raw adapter unsettled: it listens to oncomplete and onerror only,
\* while tx.done of the wrapper library rejects on abort as well.
Hangs(c, outcome) == outcome = "abort" /\ ~c.useIDB

Hang(outcome) ==
  Frame("hung", benchmark, queue, currentBatch, entry, reader,
        Settle(txLog, outcome), visited, now)

\* transaction.oncomplete of a flush made inside the loop; currentBatch = [].
FlushComplete ==
  /\ pc = "flush"
  /\ store' = [store EXCEPT ![Impl] = PutAll(@, currentBatch)]
  /\ Loop(call, benchmark, queue, <<>>, Settle(txLog, "complete"), visited, now)
  /\ UNCHANGED <<appVars, handleHist, hist, failed, db, call, keys, readResults, i,
                 counted, fileErrs, nCalls, nFail>>

\* The flush inside the loop rejects: the await sits in the try of the file
\* branch, so its catch counts an error and the loop goes on with the batch
\* as it was.
FlushFail ==
  /\ pc = "flush"
  /\ MayFail
  /\ nFail' = nFail + 1
  /\ \E outcome \in {"error", "abort"} :
       IF Hangs(call, outcome)
       THEN Hang(outcome) /\ fileErrs' = fileErrs
       ELSE /\ fileErrs' = fileErrs + 1
            /\ Loop(call, CountError(benchmark), queue, currentBatch,
                    Settle(txLog, outcome), visited, now)
  /\ UNCHANGED <<appVars, handleHist, hist, failed, db, store, call, keys, readResults, i,
                 counted, nCalls>>

\* transaction.oncomplete of the flush after the loop.
FinalFlushComplete ==
  /\ pc = "finalFlush"
  /\ store' = [store EXCEPT ![Impl] = PutAll(@, currentBatch)]
  /\ Finish(call.kind, benchmark, "returned", Settle(txLog, "complete"),
            visited, now)
  /\ UNCHANGED <<appVars, handleHist, hist, failed, db, call, keys, readResults, i,
                 counted, fileErrs, nCalls, nFail>>

\* The flush after the loop rejects: no catch but the finally block.
FinalFlushFail ==
  /\ pc = "finalFlush"
  /\ MayFail
  /\ nFail' = nFail + 1
  /\ \E outcome \in {"error", "abort"} :
       IF Hangs(call, outcome)
       THEN Hang(outcome)
       ELSE Throw(call, benchmark, Settle(txLog, outcome), visited, now)
  /\ UNCHANGED <<appVars, handleHist, hist, failed, db, store, call, keys, readResults, i,
                 counted, fileErrs, nCalls>>

\* -------------------------------------------------------- the read benchmark

\* Mutant: the transaction that starts at key number from takes all the keys
\* that are left.
ChunkTxRest(ks, from) ==
  [mode |-> "readonly", n |-> Len(ks) - from, outcome |-> "pending",
   keys |-> Slice(ks, from, Len(ks))]

\* The readonly transaction of the chunk that starts at key number from, with
\* the keys it requests: keys.slice(i, i + batchSize).
ChunkTx(ks, from) ==
  LET batchKeys == Slice(ks, from, from + BATCH_SIZE)
  IN [mode |-> "readonly", n |-> Len(batchKeys), outcome |-> "pending",
      keys |-> batchKeys]

\* batchReadFromIndexedDB returns res: the read benchmark counts the files
\* and ends; a direct caller has its result.
ReadReturns(c, b, res, log) ==
  IF c.kind = "read"
  THEN /\ Finish(c.kind, CountFiles(b, res), "returned", log, visited, now)
       /\ counted' = [n \in 1..Len(res) |-> res[n].size]
  ELSE /\ Frame("returned", b, <<>>, <<>>, NoEntry, NoReader, log, visited, now)
       /\ counted' = counted

\* The transaction in flight has failed and the adapter call rejects: the
\* catch of the read benchmark counts one error and the benchmark returns; a
\* direct caller gets the rejection.
ReadRejects(c, b, log) ==
  IF c.kind = "read"
  THEN Finish(c.kind, CountError(b), "returned", log, visited, now)
  ELSE Frame("thrown", b, <<>>, <<>>, NoEntry, NoReader, log, visited, now)

\* getAllKeys resolves; batchReadFromIndexedDB then returns [] at once for no
\* keys (or no handle), and otherwise opens the transaction of its first chunk.
KeysSuccess ==
  /\ pc = "keys"
  /\ LET ks == GetAllKeysOf(store[Impl])
         log == Settle(txLog, "complete")
     IN /\ keys' = ks
        /\ readResults' = <<>>
        /\ i' = 0
        /\ IF ~db[Impl] \/ Len(ks) = 0
           THEN Finish(call.kind, CountFiles(benchmark, <<>>), "returned", log,
                       visited, now)
           ELSE Frame("chunk", benchmark, queue, currentBatch, entry, reader,
                      Append(log, ChunkTx(ks, 0)), visited, now)
  /\ UNCHANGED <<appVars, handleHist, hist, failed, db, store, call, counted, fileErrs,
                 nCalls, nFail>>

\* A read benchmark without its catch block: the rejection of getAllKeys
\* leaves the call as an exception.
KeysErrorPropagates ==
  /\ pc = "keys"
  /\ MayFail
  /\ nFail' = nFail + 1
  /\ Throw(call, benchmark, Settle(txLog, "error"), visited, now)
  /\ UNCHANGED <<appVars, handleHist, hist, failed, db, store, call, keys, readResults, i,
                 counted, fileErrs, nCalls>>

\* getAllKeys rejects: the catch of the read benchmark counts one error.
KeysError ==
  /\ pc = "keys"
  /\ MayFail
  /\ nFail' = nFail + 1
  /\ Finish(call.kind, CountError(benchmark), "returned",
            Settle(txLog, "error"), visited, now)
  /\ UNCHANGED <<appVars, handleHist, hist, failed, db, store, call, keys, readResults, i,
                 counted, fileErrs, nCalls>>

\* Mutant: a chunk that completes takes the records it has read out of the
\* store.
ChunkCompleteConsumes ==
  /\ pc = "chunk"
  /\ LET batchKeys == Slice(keys, i, i + BATCH_SIZE)
         res == readResults \o GetChunk(Impl, store[Impl], batchKeys)
         next == i + BATCH_SIZE
         log == Settle(txLog, "complete")
     IN /\ readResults' = res
        /\ i' = next
        /\ store' = [store EXCEPT ![Impl] = <<>>]
        /\ IF next < Len(keys)
           THEN /\ Frame("chunk", benchmark, queue, currentBatch, entry, reader,
                         Append(log, ChunkTx(keys, next)), visited, now)
                /\ counted' = counted
           ELSE ReadReturns(call, benchmark, res, log)
  /\ UNCHANGED <<appVars, handleHist, hist, failed, db, call, keys, fileErrs,
                 nCalls, nFail>>

\* The transaction of the chunk in flight completes: its values are appended
\* and the next chunk is opened, or the read is over and the files are counted.
ChunkComplete ==
  /\ pc = "chunk"
  /\ LET batchKeys == Slice(keys, i, i + BATCH_SIZE)
         res == readResults \o GetChunk(Impl, store[Impl], batchKeys)
         next == i + BATCH_SIZE
         log == Settle(txLog, "complete")
     IN /\ readResults' = res
        /\ i' = next
        /\ IF next < Len(keys)
           THEN /\ Frame("chunk", benchmark, queue, currentBatch, entry, reader,
                         Append(log, ChunkTx(keys, next)), visited, now)
                /\ counted' = counted
           ELSE ReadReturns(call, benchmark, res, log)
  /\ UNCHANGED <<appVars, handleHist, hist, failed, db, store, call, keys, fileErrs,
                 nCalls, nFail>>

\* Mutant: the read benchmark has no catch, so a failed chunk escapes
\* uncounted.
ChunkFailUncounted ==
  /\ pc = "chunk"
  /\ MayFail
  /\ nFail' = nFail + 1
  /\ \E outcome \in {"error", "abort"} :
       IF Hangs(call, outcome)
       THEN Hang(outcome)
       ELSE Throw(call, benchmark, Settle(txLog, outcome), visited, now)
  /\ UNCHANGED <<appVars, handleHist, hist, failed, db, store, call, keys, readResults, i,
                 counted, fileErrs, nCalls>>

\* The transaction of the chunk in flight fails: batchRead rejects and the
\* catch of the read benchmark counts one error; nothing is counted.
ChunkFail ==
  /\ pc = "chunk"
  /\ MayFail
  /\ nFail' = nFail + 1
  /\ \E outcome \in {"error", "abort"} :
       IF Hangs(call, outcome)
       THEN Hang(outcome)
       ELSE ReadRejects(call, benchmark, Settle(txLog, outcome))
  /\ UNCHANGED <<appVars, handleHist, hist, failed, db, store, call, keys, readResults, i,
                 counted, fileErrs, nCalls>>

\* The steps of a benchmark call in progress.
BenchStep ==
  \/ GetFileSuccess
  \/ GetFileError
  \/ ReadEntriesSuccess
  \/ ReadEntriesError
  \/ FlushComplete
  \/ FlushFail
  \/ FinalFlushComplete
  \/ FinalFlushFail
  \/ KeysSuccess
  \/ KeysError
  \/ ChunkComplete
  \/ ChunkFail

\* ------------------------------------------- direct calls of the benchmarks

NoCall ==
  [kind |-> "none", useIDB |-> FALSE, legacy |-> FALSE, entries |-> <<>>]

\* No call is in progress.
Idle == pc \in {"idle", "returned", "thrown"}

\* The failures injected so far, as the next call finds them.
FailuresAtCall == IF hist.on THEN 0 ELSE nFail

\* A further call may be made; with the history on, the calls of a
\* behaviour are a first call and the call that follows it.
CanCall ==
  /\ Idle
  /\ nCalls < MaxCalls
  /\ hist.on => hist.prev.call = NoCall

CallLoop ==
  /\ CanCall
  /\ nCalls' = nCalls + 1
  /\ \E entries \in RootChoices :
       Begin("loop", FALSE, FALSE, entries)
  /\ nFail' = FailuresAtCall
  /\ UNCHANGED <<db, store, handleHist, appVars>>

CallWrite ==
  /\ CanCall
  /\ nCalls' = nCalls + 1
  /\ \E entries \in RootChoices, useIDB \in BOOLEAN, legacy \in BOOLEAN :
       /\ legacy => ~useIDB
       /\ Begin("write", useIDB, legacy, entries)
  /\ nFail' = FailuresAtCall
  /\ UNCHANGED <<db, store, handleHist, appVars>>

CallRead ==
  /\ CanCall
  /\ nCalls' = nCalls + 1
  /\ \E useIDB \in BOOLEAN :
       Begin("read", useIDB, FALSE, <<>>)
  /\ nFail' = FailuresAtCall
  /\ UNCHANGED <<db, store, handleHist, appVars>>

\* ---------------------------------------------- direct calls of the adapters

\* The key lists a direct caller of batchReadFromIndexedDB passes: none, the
\* stored keys in and out of key order, a key with no record, a number.
KeyLists ==
  { <<>>,
    <<"file-a", "file-b", "file-c">>,
    <<"file-c", "file-a">>,
    <<"file-a", "file-q", "file-b">>,
    <<NumberKey, "file-q", "file-b">> }

\* The state of an adapter's handle: db is set, db is null after closeDB, or
\* db is null because initDB has never set it.
HandleState(impl) ==
  IF db[impl] THEN "open"
  ELSE IF impl \in handleHist.opened THEN "closed" ELSE "never opened"

\* A further adapter call may be made.
CanCallAdapter == Idle /\ nCalls < MaxAdapterCalls

\* A call of an adapter function, with the handle state it finds.
AdapterCall(kind, useIDB) ==
  [kind |-> kind, useIDB |-> useIDB, legacy |-> FALSE, entries |-> <<>>,
   from |-> HandleState(ImplOf(useIDB))]

\* Mutant: the handle is left as it is.
CloseDBSkipped(impl) == db' = db

\* if (db) { db.close(); db = null }
CloseDB(impl) == db' = [db EXCEPT ![impl] = FALSE]

\* batchReadFromIndexedDB(keys, BATCH_SIZE) is called: [] at once without a
\* handle or without keys, else the transaction of the first chunk is opened.
CallBatchRead ==
  /\ CanCallAdapter
  /\ nCalls' = nCalls + 1
  /\ \E useIDB \in BOOLEAN, ks \in KeyLists :
       /\ call' = AdapterCall("batchRead", useIDB)
       /\ keys' = ks
       /\ readResults' = <<>>
       /\ i' = 0
       /\ IF ~db[ImplOf(useIDB)] \/ Len(ks) = 0
          THEN Frame("returned", benchmark, <<>>, <<>>, NoEntry, NoReader,
                     <<>>, <<>>, now)
          ELSE Frame("chunk", benchmark, <<>>, <<>>, NoEntry, NoReader,
                     <<ChunkTx(ks, 0)>>, <<>>, now)
  /\ UNCHANGED <<db, store, nFail, handleHist, appVars, counted, fileErrs,
                 failed, hist>>

\* closeDB() is called: it returns at once.
CallCloseDB ==
  /\ CanCallAdapter
  /\ nCalls' = nCalls + 1
  /\ \E useIDB \in BOOLEAN :
       /\ call' = AdapterCall("closeDB", useIDB)
       /\ CloseDB(ImplOf(useIDB))
  /\ Frame("returned", benchmark, <<>>, <<>>, NoEntry, NoReader, <<>>, <<>>,
           now)
  /\ UNCHANGED <<store, nFail, handleHist, appVars, counted, fileErrs, failed,
                 hist, keys, readResults, i>>

\* deleteDB() is called: closeDB(), then the request to delete the database.
CallDeleteDB ==
  /\ CanCallAdapter
  /\ nCalls' = nCalls + 1
  /\ \E useIDB \in BOOLEAN :
       /\ call' = AdapterCall("deleteDB", useIDB)
       /\ CloseDB(ImplOf(useIDB))
  /\ Frame("deleting", benchmark, <<>>, <<>>, NoEntry, NoReader, <<>>, <<>>,
           now)
  /\ UNCHANGED <<store, nFail, handleHist, appVars, counted, fileErrs, failed,
                 hist, keys, readResults, i>>

\* The step that ends a deleteDB call, leaving the frame as it is.
DeleteDBEnds(p) ==
  /\ Frame(p, benchmark, queue, currentBatch, entry, reader, txLog, visited,
           now)
  /\ UNCHANGED <<db, call, appVars, counted, fileErrs, failed, hist, keys,
                 readResults, i, nCalls>>

\* request.onsuccess of deleteDatabase: the database and its records are
\* gone and deleteDB resolves.
DeleteDBSuccess ==
  /\ pc = "deleting"
  /\ store' = [store EXCEPT ![Impl] = <<>>]
  /\ handleHist' =
       [handleHist EXCEPT
          !.destroyed = @ \cup {[from |-> call.from,
                                  records |-> store[Impl] # <<>>]}]
  /\ DeleteDBEnds("returned")
  /\ nFail' = nFail

\* request.onerror of deleteDatabase: deleteDB rejects.
DeleteDBError ==
  /\ pc = "deleting"
  /\ MayFail
  /\ nFail' = nFail + 1
  /\ DeleteDBEnds("thrown")
  /\ UNCHANGED <<store, handleHist>>

\* The delete request is blocked by a connection of another page: neither
\* adapter listens to the blocked event, and the request stays pending.
DeleteDBBlocked ==
  /\ pc = "deleting"
  /\ MayFail
  /\ nFail' = nFail + 1
  /\ DeleteDBEnds("hung")
  /\ UNCHANGED <<store, handleHist>>

\* The benchmark ids of App.tsx, in the order of the benchmarks array.
Benchmarks ==
  << [id |-> "loop", kind |-> "loop", useIDB |-> FALSE],
     [id |-> "write", kind |-> "write", useIDB |-> FALSE],
     [id |-> "write-overwrite", kind |-> "write", useIDB |-> FALSE],
     [id |-> "read", kind |-> "read", useIDB |-> FALSE],
     [id |-> "idb-write", kind |-> "write", useIDB |-> TRUE],
     [id |-> "idb-write-overwrite", kind |-> "write", useIDB |-> TRUE],
     [id |-> "idb-read", kind |-> "read", useIDB |-> TRUE] >>

BenchmarkIds == {Benchmarks[k].id : k \in 1..Len(Benchmarks)}

\* A result not yet published: null.
Null == [fileCount |-> -1]

\* A key the results object does not have: undefined.
Undefined == [fileCount |-> -2]

\* setResults({loop: null, write: null, 'write-overwrite': null, read: null}):
\* the four keys are null and the results object has no other key.
NoResults ==
  [id \in BenchmarkIds |->
     IF id \in {"loop", "write", "write-overwrite", "read"}
     THEN Null ELSE Undefined]

\* No handleDrop call is in progress: of a call in progress, suite keeps the
\* position, the index of the benchmark awaited, the root entries, and which
\* drop event of the behaviour it handles.
NoSuite == [pc |-> "idle", k |-> 0, rootEntries |-> <<>>, drop |-> 0]

\* No App component is mounted: the benchmark functions are called directly.
NoApp ==
  /\ mount = "none"
  /\ isProcessing = FALSE
  /\ results = NoResults
  /\ suite = NoSuite
  /\ logged = <<>>
  /\ nDrops = 0

NoSnapshot ==
  [call |-> NoCall, pc |-> "idle", benchmark |-> NewBenchmark(0, "none"),
   counted |-> <<>>, txLog |-> <<>>, visited |-> <<>>, failed |-> {},
   store0 |-> [m \in Impls |-> <<>>]]

\* The adapters' modules are loaded, each handle opened by initDB or still
\* null, the stores empty, and no benchmark has been called.
InitBench ==
  /\ db \in [Impls -> BOOLEAN]
  /\ store = [m \in Impls |-> <<>>]
  /\ now = 0
  /\ pc = "idle"
  /\ call = NoCall
  /\ benchmark = NewBenchmark(0, "none")
  /\ queue = <<>>
  /\ currentBatch = <<>>
  /\ entry = NoEntry
  /\ reader = NoReader
  /\ keys = <<>>
  /\ readResults = <<>>
  /\ i = 0
  /\ txLog = <<>>
  /\ visited = <<>>
  /\ counted = <<>>
  /\ fileErrs = 0
  /\ failed = {}
  /\ hist = [on |-> FALSE]
  /\ handleHist = [opened |-> {m \in Impls : db[m]}, destroyed |-> {}]
  /\ nCalls = 0
  /\ nFail = 0
  /\ NoApp

\* What the object store of a database holds when the modules are loaded:
\* nothing, or the files an earlier session wrote.
StoreChoices == {<<>>, PutAll(<<>>, StoredFiles)}

\* As InitBench, keeping the history of the previous call; both handles are
\* open or both are null, the stores are empty or hold the files of an
\* earlier session, and the clock has reached its last reading.
InitPair ==
  /\ \E open \in BOOLEAN : db = [m \in Impls |-> open]
  /\ \E st \in StoreChoices : store = [m \in Impls |-> st]
  /\ now = MaxClock
  /\ pc = "idle"
  /\ call = NoCall
  /\ benchmark = NewBenchmark(0, "none")
  /\ queue = <<>>
  /\ currentBatch = <<>>
  /\ entry = NoEntry
  /\ reader = NoReader
  /\ keys = <<>>
  /\ readResults = <<>>
  /\ i = 0
  /\ txLog = <<>>
  /\ visited = <<>>
  /\ counted = <<>>
  /\ fileErrs = 0
  /\ failed = {}
  /\ hist = [on |-> TRUE, store0 |-> store, prev |-> NoSnapshot]
  /\ handleHist = [opened |-> {m \in Impls : db[m]}, destroyed |-> {}]
  /\ nCalls = 0
  /\ nFail = 0
  /\ NoApp

NextBench ==
  \/ CallLoop
  \/ CallWrite
  \/ CallRead
  \/ BenchStep

SpecBench == InitBench /\ [][NextBench]_vars

SpecPair == InitPair /\ [][NextBench]_vars

\* The adapters' modules are loaded, each handle opened by initDB, closed
\* again by closeDB, or never opened; the stores are empty or hold the files
\* of an earlier session.
InitAdapter ==
  /\ db \in [Impls -> BOOLEAN]
  /\ \E everOpened \in SUBSET Impls :
       handleHist = [opened |-> everOpened \cup {m \in Impls : db[m]},
                     destroyed |-> {}]
  /\ \E st \in StoreChoices : store = [m \in Impls |-> st]
  /\ now = 0
  /\ pc = "idle"
  /\ call = NoCall
  /\ benchmark = NewBenchmark(0, "none")
  /\ queue = <<>>
  /\ currentBatch = <<>>
  /\ entry = NoEntry
  /\ reader = NoReader
  /\ keys = <<>>
  /\ readResults = <<>>
  /\ i = 0
  /\ txLog = <<>>
  /\ visited = <<>>
  /\ counted = <<>>
  /\ fileErrs = 0
  /\ failed = {}
  /\ hist = [on |-> FALSE]
  /\ nCalls = 0
  /\ nFail = 0
  /\ NoApp

NextAdapter ==
  \/ CallBatchRead
  \/ CallCloseDB
  \/ CallDeleteDB
  \/ ChunkComplete
  \/ ChunkFail
  \/ DeleteDBSuccess
  \/ DeleteDBError
  \/ DeleteDBBlocked

SpecAdapter == InitAdapter /\ [][NextAdapter]_vars

\* ------------------------------------------------------- the App component

\* The frame of the benchmark functions is left as it is.
FrameUnchanged ==
  UNCHANGED <<now, call, benchmark, queue, currentBatch, entry, reader, keys,
              readResults, i, txLog, visited, counted, fileErrs, failed, hist>>

\* onMount: initIndexedDB() resolves, the handle of indexeddb.ts is set, and
\* initIDB() is called.
MountIndexedDBSuccess ==
  /\ mount = "initIndexedDB"
  /\ mount' = "initIDB"
  /\ db' = [db EXCEPT !["IndexedDB"] = TRUE]
  /\ handleHist' = [handleHist EXCEPT !.opened = @ \cup {"IndexedDB"}]
  /\ pc' = pc
  /\ FrameUnchanged
  /\ UNCHANGED <<store, isProcessing, results, suite, logged, nDrops, nCalls,
                 nFail>>

\* onMount: initIDB() resolves and the handle of idb.ts is set.
MountIDBSuccess ==
  /\ mount = "initIDB"
  /\ mount' = "done"
  /\ db' = [db EXCEPT !["IDB"] = TRUE]
  /\ handleHist' = [handleHist EXCEPT !.opened = @ \cup {"IDB"}]
  /\ pc' = pc
  /\ FrameUnchanged
  /\ UNCHANGED <<store, isProcessing, results, suite, logged, nDrops, nCalls,
                 nFail>>

\* onMount: the open request in flight fails: the catch logs 'Failed to
\* initialize database' and nothing more is opened.
MountError ==
  /\ mount \in {"initIndexedDB", "initIDB"}
  /\ MayFail
  /\ nFail' = nFail + 1
  /\ mount' = "failed"
  /\ pc' = pc
  /\ FrameUnchanged
  /\ UNCHANGED <<db, store, isProcessing, results, suite, logged, nDrops,
                 handleHist, nCalls>>

\* The benchmark at position k of the benchmarks array is run: the walking
\* benchmarks get a copy of rootEntries; the read benchmarks take no entries
\* (the runBenchmark of 'idb-read' ignores the copy it is passed).
RunBenchmark(k, rootEntries) ==
  Begin(Benchmarks[k].kind, Benchmarks[k].useIDB, FALSE,
        IF Benchmarks[k].kind = "read" THEN <<>> ELSE rootEntries)

\* The finally block of handleDrop: deleteDB() of indexeddb.ts closes its
\* handle and requests the deletion of 'filesDB'.
StartDelete(s) ==
  /\ suite' = [s EXCEPT !.pc = "deleting"]
  /\ db' = [db EXCEPT !["IndexedDB"] = FALSE]
  /\ pc' = "idle"
  /\ FrameUnchanged

\* A drop while a suite is in progress: if (isProcessing()) return.
DropIgnored ==
  /\ mount # "none"
  /\ isProcessing
  /\ nDrops < MaxDrops
  /\ nDrops' = nDrops + 1
  /\ pc' = pc
  /\ FrameUnchanged
  /\ UNCHANGED <<db, store, mount, isProcessing, results, suite, logged,
                 handleHist, nCalls, nFail>>

\* Mutant: a drop is accepted whether or not a suite is in progress.
DropUnguarded ==
  /\ mount # "none"
  /\ nDrops < MaxDrops
  /\ nDrops' = nDrops + 1
  /\ isProcessing' = TRUE
  /\ results' = NoResults
  /\ \E rootEntries \in DropChoices :
       /\ suite' = [pc |-> "running", k |-> 1, rootEntries |-> rootEntries,
                    drop |-> nDrops + 1]
       /\ RunBenchmark(1, rootEntries)
  /\ UNCHANGED <<db, store, mount, logged, handleHist, nCalls, nFail>>

\* A drop of file-system entries: the results are reset and the first
\* benchmark is started.
Drop ==
  /\ mount # "none"
  /\ ~isProcessing
  /\ nDrops < MaxDrops
  /\ nDrops' = nDrops + 1
  /\ isProcessing' = TRUE
  /\ results' = NoResults
  /\ \E rootEntries \in DropChoices :
       /\ suite' = [pc |-> "running", k |-> 1, rootEntries |-> rootEntries,
                    drop |-> nDrops + 1]
       /\ RunBenchmark(1, rootEntries)
  /\ UNCHANGED <<db, store, mount, logged, handleHist, nCalls, nFail>>

\* A drop without dataTransfer items: the try block returns at once and the
\* finally block deletes the database.
DropNoItems ==
  /\ mount # "none"
  /\ ~isProcessing
  /\ nDrops < MaxDrops
  /\ nDrops' = nDrops + 1
  /\ isProcessing' = TRUE
  /\ results' = NoResults
  /\ StartDelete([suite EXCEPT !.drop = nDrops + 1])
  /\ UNCHANGED <<store, mount, logged, handleHist, nCalls, nFail>>

\* After benchmark k of the suite: the next benchmark of the array is run, or
\* the loop is over and the finally block of handleDrop begins.
Advance ==
  IF suite.k < Len(Benchmarks)
  THEN /\ suite' = [suite EXCEPT !.k = suite.k + 1]
       /\ RunBenchmark(suite.k + 1, suite.rootEntries)
       /\ db' = db
  ELSE StartDelete(suite)

\* The awaited benchmark returned: setResults publishes its result.
SuitePublish ==
  /\ suite.pc = "running"
  /\ pc = "returned"
  /\ results' = [results EXCEPT ![Benchmarks[suite.k].id] = benchmark]
  /\ Advance
  /\ UNCHANGED <<store, mount, isProcessing, logged, nDrops, handleHist, nCalls, nFail>>

\* Mutant: the loop body has no catch, so the exception ends the loop and
\* the finally block of handleDrop begins.
SuiteCatchAborts ==
  /\ suite.pc = "running"
  /\ pc = "thrown"
  /\ logged' = Append(logged, Benchmarks[suite.k].id)
  /\ StartDelete(suite)
  /\ UNCHANGED <<store, mount, isProcessing, results, nDrops, handleHist,
                 nCalls, nFail>>

\* The awaited benchmark threw: the catch of the loop body logs 'Error
\* running ... benchmark' and the loop goes on.
SuiteCatch ==
  /\ suite.pc = "running"
  /\ pc = "thrown"
  /\ logged' = Append(logged, Benchmarks[suite.k].id)
  /\ Advance
  /\ UNCHANGED <<store, mount, isProcessing, results, nDrops, handleHist, nCalls, nFail>>

\* The delete request succeeds: 'filesDB' is gone; setIsProcessing(false).
DeleteSuccess ==
  /\ suite.pc = "deleting"
  /\ store' = [store EXCEPT !["IndexedDB"] = <<>>]
  /\ suite' = NoSuite
  /\ isProcessing' = FALSE
  /\ pc' = pc
  /\ FrameUnchanged
  /\ UNCHANGED <<db, mount, results, logged, nDrops, handleHist, nCalls, nFail>>

\* The delete request fails: 'Error deleting database' is logged;
\* setIsProcessing(false).
DeleteError ==
  /\ suite.pc = "deleting"
  /\ MayFail
  /\ nFail' = nFail + 1
  /\ suite' = NoSuite
  /\ isProcessing' = FALSE
  /\ pc' = pc
  /\ FrameUnchanged
  /\ UNCHANGED <<db, store, mount, results, logged, nDrops, handleHist, nCalls>>

\* The delete request is blocked by a connection of another page: deleteDB
\* listens to success and error only, so its promise stays pending and the
\* finally block never reaches setIsProcessing(false).
DeleteBlocked ==
  /\ suite.pc = "deleting"
  /\ MayFail
  /\ nFail' = nFail + 1
  /\ suite' = [suite EXCEPT !.pc = "blocked"]
  /\ pc' = pc
  /\ FrameUnchanged
  /\ UNCHANGED <<db, store, mount, isProcessing, results, logged, nDrops,
                 handleHist, nCalls>>

\* The App component is mounted: onMount has called initIndexedDB(), neither
\* handle is set, the stores are empty and nothing is being processed.
Init ==
  /\ db = [m \in Impls |-> FALSE]
  /\ store = [m \in Impls |-> <<>>]
  /\ now = MaxClock
  /\ pc = "idle"
  /\ call = NoCall
  /\ benchmark = NewBenchmark(0, "none")
  /\ queue = <<>>
  /\ currentBatch = <<>>
  /\ entry = NoEntry
  /\ reader = NoReader
  /\ keys = <<>>
  /\ readResults = <<>>
  /\ i = 0
  /\ txLog = <<>>
  /\ visited = <<>>
  /\ counted = <<>>
  /\ fileErrs = 0
  /\ failed = {}
  /\ hist = [on |-> FALSE]
  /\ handleHist = [opened |-> {m \in Impls : db[m]}, destroyed |-> {}]
  /\ nCalls = 0
  /\ nFail = 0
  /\ mount = "initIndexedDB"
  /\ isProcessing = FALSE
  /\ results = NoResults
  /\ suite = NoSuite
  /\ logged = <<>>
  /\ nDrops = 0

Next ==
  \/ MountIndexedDBSuccess
  \/ MountIDBSuccess
  \/ MountError
  \/ Drop
  \/ DropNoItems
  \/ DropIgnored
  \/ SuitePublish
  \/ SuiteCatch
  \/ DeleteSuccess
  \/ DeleteError
  \/ DeleteBlocked
  \/ BenchStep

Spec == Init /\ [][Next]_vars

\* Every platform call in flight eventually ends and every callback that is
\* ready eventually runs: a step of the harness that stays possible is taken.
SpecLive == Spec /\ WF_vars(Next)

\* ------------------------------------------------------------------ claims

\* The children a directory hands over when its enumeration succeeds.
RECURSIVE Concat(_)
Concat(pages) ==
  IF pages = <<>> THEN <<>> ELSE Head(pages) \o Concat(Tail(pages))

\* The order in which a first-in first-out walk from the queue q pops the
\* nodes, the node popped k-th being the next, when the directories popped
\* at the positions in F fail to enumerate.
RECURSIVE Walk(_, _, _)
Walk(q, k, F) ==
  IF q = <<>> THEN <<>>
  ELSE LET e == Head(q)
           kids == IF e.isDirectory /\ k \notin F THEN Concat(e.pages) ELSE <<>>
       IN <<e>> \o Walk(Tail(q) \o kids, k + 1, F)

FilesIn(seq) == SelectSeq(seq, LAMBDA e : e.isFile)
DirsIn(seq) == SelectSeq(seq, LAMBDA e : e.isDirectory)

\* The file and directory nodes of the tree under the roots.
NFiles(roots) == Len(FilesIn(Walk(roots, 1, {})))
NDirs(roots) == Len(DirsIn(Walk(roots, 1, {})))

RECURSIVE Sum(_)
Sum(seq) == IF seq = <<>> THEN 0 ELSE Head(seq) + Sum(Tail(seq))

Ceil(a, b) == (a + b - 1) \div b

\* The call in progress has ended, by return or by exception.
Ended == pc \in {"returned", "thrown"}

\* Every transaction the call opened has completed.
NoTxFailure == \A k \in 1..Len(txLog) : txLog[k].outcome = "complete"

\* The sizes of the write transactions the call has opened, in order.
WriteSizes ==
  LET w == SelectSeq(txLog, LAMBDA x : x.mode = "readwrite")
  IN [k \in 1..Len(w) |-> w[k].n]

\* A write benchmark over more files than the threshold has ended on an open
\* handle with no file, directory or transaction failure.
CleanBigWrite ==
  /\ Ended
  /\ call.kind = "write"
  /\ db[Impl]
  /\ NoTxFailure
  /\ benchmark.errorCount = 0
  /\ NFiles(call.entries) > BATCH_SIZE

\* C1: a failure-free write benchmark over F > B files on an open store issues
\* exactly ceil(F/B) write transactions, none of more than B records, the last
\* of F mod B records (B when B divides F).
C1_Batching ==
  CleanBigWrite =>
    LET F == NFiles(call.entries)
        sizes == WriteSizes
    IN /\ Len(sizes) = Ceil(F, BATCH_SIZE)
       /\ \A k \in 1..Len(sizes) : sizes[k] <= BATCH_SIZE
       /\ sizes[Len(sizes)] =
            (IF F % BATCH_SIZE = 0 THEN BATCH_SIZE ELSE F % BATCH_SIZE)

\* C1 witness: such a run has ended after three or more transactions, the
\* last one a remainder smaller than the threshold.
C1_Witness ==
  /\ CleanBigWrite
  /\ Len(WriteSizes) >= 3
  /\ WriteSizes[Len(WriteSizes)] < BATCH_SIZE

\* C3: once a loop-only, write or read benchmark has returned or thrown, its
\* result has endTime >= startTime and duration = endTime - startTime.
C3_Finalization ==
  Ended =>
    /\ benchmark.endTime >= benchmark.startTime
    /\ benchmark.duration = benchmark.endTime - benchmark.startTime

\* C3 witness: a run that began after the clock had advanced has ended by an
\* exception, its finally block having stamped a later end time.
C3_Witness ==
  /\ pc = "thrown"
  /\ benchmark.startTime > 0
  /\ benchmark.endTime >= benchmark.startTime
  /\ benchmark.duration = benchmark.endTime - benchmark.startTime

\* C4: in every write benchmark, fileCount plus the errorCount increments made
\* while handling file nodes is at most the number of file nodes presented,
\* and totalSize is the sum of the sizes of the files counted.
C4_FileAccounting ==
  call.kind = "write" =>
    /\ benchmark.fileCount + fileErrs <= Len(FilesIn(visited))
    /\ benchmark.fileCount = Len(counted)
    /\ benchmark.totalSize = Sum(counted)

\* C6: no write transaction holds more records than the threshold: a batchSave
\* call with more records is split.
C6_AdapterSplits ==
  \A k \in 1..Len(txLog) :
    txLog[k].mode = "readwrite" => txLog[k].n <= BATCH_SIZE

\* A loop-only or write benchmark has ended with no failure of any kind.
CleanWalk ==
  /\ Ended
  /\ call.kind \in {"loop", "write"}
  /\ NoTxFailure
  /\ benchmark.errorCount = 0

\* C7: a failure-free loop-only or write benchmark over a tree of N files and
\* D directories ends with dirCount = D and fileCount = N, having popped each
\* node exactly once.
C7_WalkCounts ==
  CleanWalk =>
    /\ benchmark.dirCount = NDirs(call.entries)
    /\ benchmark.fileCount = NFiles(call.entries)
    /\ visited = Walk(call.entries, 1, {})

\* C7 witness: such a run has ended over a tree with a nested, paginated
\* directory.
C7_Witness ==
  /\ CleanWalk
  /\ NDirs(call.entries) = 2
  /\ NFiles(call.entries) = 5
  /\ benchmark.dirCount = 2
  /\ benchmark.fileCount = 5

\* C8: when the enumeration of a directory or the materialization of a file
\* fails, errorCount rises by one for that node, dirCount still counts the
\* directory, the run does not abort, and every node queued before or after
\* by other directories is still processed.
C8_NodeIsolation ==
  (Ended /\ call.kind \in {"loop", "write"} /\ NoTxFailure) =>
    /\ pc = "returned"
    /\ benchmark.errorCount = Cardinality(failed)
    /\ benchmark.dirCount = Len(DirsIn(visited))
    /\ benchmark.fileCount + fileErrs = Len(FilesIn(visited))
    /\ visited = Walk(call.entries, 1, failed)

\* C8 witness: a directory failed to enumerate and nodes queued behind it were
\* processed before the run returned with one error.
C8_Witness ==
  /\ pc = "returned"
  /\ call.kind = "write"
  /\ NoTxFailure
  /\ benchmark.errorCount = 1
  /\ benchmark.dirCount = 1
  /\ \E k \in failed :
       /\ visited[k].isDirectory
       /\ Concat(visited[k].pages) # <<>>
       /\ k < Len(visited)

\* A transaction of the read benchmark has failed.
ReadFailed ==
  \E k \in 1..Len(txLog) : txLog[k].outcome \in {"error", "abort"}

\* C9: the result of a read benchmark has errorCount 1 when key listing or a
\* chunk's transaction failed, whatever the number of keys and chunks, and 0
\* otherwise.
C9_ReadErrorCount ==
  (Ended /\ call.kind = "read") =>
    benchmark.errorCount = (IF ReadFailed THEN 1 ELSE 0)

\* C9 witness: the transaction of the second chunk failed after the first
\* chunk had been read, and the result carries one error.
C9_Witness ==
  /\ pc = "returned"
  /\ call.kind = "read"
  /\ Len(txLog) = 3
  /\ txLog[3].outcome = "error"
  /\ benchmark.errorCount = 1
  /\ benchmark.fileCount = 0

\* The values of seq as a multiset: v occurs as often in s1 as in s2.
CountOf(seq, v) == Len(SelectSeq(seq, LAMBDA x : x = v))
SameBag(s1, s2) ==
  \A v \in {s1[k] : k \in 1..Len(s1)} \cup {s2[k] : k \in 1..Len(s2)} :
    CountOf(s1, v) = CountOf(s2, v)

\* No two file nodes of the tree under the roots share a name.
DistinctNames(roots) ==
  LET fs == FilesIn(Walk(roots, 1, {}))
  IN \A a, b \in 1..Len(fs) : fs[a].name = fs[b].name => a = b

\* A read benchmark has returned right after a write benchmark of the same
\* implementation, which found the store open and empty, met no write
\* failure and wrote no two files of one name.
RoundTripCase ==
  /\ hist.on
  /\ pc = "returned"
  /\ call.kind = "read"
  /\ hist.prev.call.kind = "write"
  /\ hist.prev.call.useIDB = call.useIDB
  /\ hist.prev.pc = "returned"
  /\ db[Impl]
  /\ hist.prev.store0[Impl] = <<>>
  /\ \A k \in 1..Len(hist.prev.txLog) : hist.prev.txLog[k].outcome = "complete"
  /\ DistinctNames(hist.prev.call.entries)

\* The read returned the sizes the write counted, as a multiset.
RoundTripHolds ==
  /\ SameBag(counted, hist.prev.counted)
  /\ benchmark.fileCount = hist.prev.benchmark.fileCount
  /\ benchmark.totalSize = hist.prev.benchmark.totalSize

WriteFailed ==
  \E k \in 1..Len(txLog) :
    txLog[k].mode = "readwrite" /\ txLog[k].outcome \in {"error", "abort"}

\* The benchmark the suite runner is awaiting has ended.
SuiteEnded == suite.pc = "running" /\ Ended

\* C5: a write benchmark of the suite in which a write transaction failed,
\* in a flush of a full batch or in the final flush, ends by an exception
\* that reaches the suite runner.
C5_WriteFailureFatal ==
  (SuiteEnded /\ call.kind = "write" /\ WriteFailed) => pc = "thrown"

\* The suite runner awaits a read benchmark that has ended after a failure of
\* key listing or of a chunk's transaction.
ReadFailedInSuite == SuiteEnded /\ call.kind = "read" /\ ReadFailed

\* C10 as stated: a read benchmark of the suite in which key listing or a
\* batched get failed ends by an exception propagated to the suite loop.
C10_ReadFailureThrown == ReadFailedInSuite => pc = "thrown"

\* C10 amended: a read-path transaction failure aborts the whole read
\* benchmark (no file is counted), is counted as one error, and the call
\* returns normally: the suite runner publishes that result and logs nothing.
C10_ReadFailureReturned ==
  /\ [](ReadFailedInSuite =>
         /\ pc = "returned"
         /\ benchmark.fileCount = 0
         /\ benchmark.totalSize = 0
         /\ benchmark.errorCount = 1)
  /\ [][(ReadFailedInSuite /\ suite' # suite) =>
          /\ results' = [results EXCEPT ![Benchmarks[suite.k].id] = benchmark]
          /\ logged' = logged]_vars

\* C10 witness: the last read benchmark of a suite has been published after
\* its transaction failed over a store that holds files.
C10_Witness ==
  /\ suite.pc = "deleting"
  /\ call.kind = "read"
  /\ ReadFailed
  /\ store[Impl] # <<>>
  /\ results["idb-read"] = benchmark
  /\ benchmark.errorCount = 1
  /\ logged = <<>>

\* A read benchmark has ended right after another read benchmark of the same
\* implementation ended; nothing ran in between.
ReadTwiceCase ==
  /\ hist.on
  /\ Ended
  /\ call.kind = "read"
  /\ hist.prev.call.kind = "read"
  /\ hist.prev.call.useIDB = call.useIDB

\* Both results show the same files.
SameReadResult ==
  /\ benchmark.fileCount = hist.prev.benchmark.fileCount
  /\ benchmark.totalSize = hist.prev.benchmark.totalSize

PrevNoTxFailure ==
  \A k \in 1..Len(hist.prev.txLog) : hist.prev.txLog[k].outcome = "complete"

ChunkTxs == SelectSeq(txLog, LAMBDA t : "keys" \in DOMAIN t)

\* batchReadFromIndexedDB has been called directly on an open handle.
BatchReadCall == call.kind = "batchRead" /\ call.from = "open"

\* C12: a batchGet call over K keys with batch size S opens its read
\* transactions one after the other over the consecutive chunks of at most S
\* keys, in key-list order; a transaction is opened only when every earlier
\* one has completed, so at most one is open at any time; and the call that
\* returns has opened exactly ceil(K/S) of them.
C12_ChunkSequencing ==
  BatchReadCall =>
    /\ \A k \in 1..Len(ChunkTxs) :
         /\ ChunkTxs[k].keys =
              SubSeq(keys, (k - 1) * BATCH_SIZE + 1,
                     Min(k * BATCH_SIZE, Len(keys)))
         /\ Len(ChunkTxs[k].keys) \in 1..BATCH_SIZE
         /\ k < Len(ChunkTxs) => ChunkTxs[k].outcome = "complete"
    /\ Cardinality({k \in 1..Len(txLog) : txLog[k].outcome = "pending"}) <= 1
    /\ pc = "chunk" => txLog[Len(txLog)].outcome = "pending"
    /\ pc = "returned" =>
         /\ Len(ChunkTxs) = Ceil(Len(keys), BATCH_SIZE)
         /\ NoTxFailure

\* C12 witness: a batchGet call over three keys has returned after two
\* chunk transactions.
C12_Witness ==
  /\ BatchReadCall
  /\ pc = "returned"
  /\ Len(keys) = 3
  /\ Len(ChunkTxs) = 2
  /\ ChunkTxs[2].keys = <<keys[3]>>

\* The stored values of the keys of a list that have a record, in list order.
RECURSIVE Present(_, _)
Present(st, ks) ==
  IF ks = <<>> THEN <<>>
  ELSE (IF Head(ks) \in DOMAIN st THEN <<st[Head(ks)]>> ELSE <<>>)
       \o Present(st, Tail(ks))

\* C13: the result of batchGet holds exactly the stored values of the keys
\* that are valid and present, in key-list order; a key with no record or of
\* the wrong type adds no element and raises no error (the call rejects only
\* when a transaction fails).
C13_SkipsSilently ==
  BatchReadCall =>
    /\ pc = "returned" => readResults = Present(store[Impl], keys)
    /\ pc = "thrown" => ReadFailed

\* C13 witness: the wrapper adapter has returned the one stored file of a
\* list of three keys whose first is a number and whose second has no record.
C13_Witness ==
  /\ BatchReadCall
  /\ call.useIDB
  /\ pc = "returned"
  /\ keys = <<NumberKey, "file-q", "file-b">>
  /\ readResults = <<StoredFiles[2]>>

\* A deleteDB call has been made directly.
DeleteDBCall == call.kind = "deleteDB"

\* C20: deleteDB from any handle state (never opened, open, closed) closes
\* the handle first and then deletes the database: the request can succeed
\* in each state, and once it has the handle is closed and the store holds no
\* record; closeDB on a closed handle changes nothing.
C20_Destroy ==
  /\ [](DeleteDBCall => ~db[Impl])
  /\ []((DeleteDBCall /\ pc = "deleting") => ENABLED DeleteDBSuccess)
  /\ []((DeleteDBCall /\ pc = "returned") => store[Impl] = <<>>)
  /\ []((DeleteDBCall /\ pc \in {"thrown", "hung"}) => nFail > 0)
  /\ [][(/\ nCalls' = nCalls + 1
         /\ call'.kind = "closeDB"
         /\ ~db[ImplOf(call'.useIDB)]) => (db' = db /\ store' = store)]_vars

\* C20 witness: deleteDB calls have resolved from each of the three handle
\* states, from the first two on stores that held files.
C20_Witness ==
  /\ DeleteDBCall
  /\ pc = "returned"
  /\ [from |-> "never opened", records |-> TRUE] \in handleHist.destroyed
  /\ [from |-> "open", records |-> TRUE] \in handleHist.destroyed
  /\ \E d \in handleHist.destroyed : d.from = "closed"
  /\ \A m \in Impls : ~db[m] /\ store[m] = <<>>

\* The suite runner is awaiting a benchmark.
InSuite == suite.pc = "running"

\* The id of the benchmark at position k of the benchmarks array.
IdOf(k) == Benchmarks[k].id

\* A published result, as opposed to null or a missing key.
IsResult(r) == r \notin {Null, Undefined}

\* The ids whose exception the suite loop has logged.
LoggedIds == {logged[n] : n \in 1..Len(logged)}

\* The call in progress is the benchmark at position k of the array.
Runs(c, k) ==
  c.kind = Benchmarks[k].kind /\ c.useIDB = Benchmarks[k].useIDB

\* C14: within a suite the benchmarks run in the order of the benchmarks
\* array; the next one starts only when the one before has ended, finalizer
\* included; a result is published in the step its benchmark returns, before
\* any later benchmark runs; and a benchmark that throws is followed by the
\* next one all the same.
C14_SuiteOrdering ==
  /\ [](InSuite =>
         /\ Runs(call, suite.k)
         /\ \A j \in 1..(suite.k - 1) :
              IsResult(results[IdOf(j)]) \/ IdOf(j) \in LoggedIds)
  /\ []((InSuite /\ pc = "thrown") => ENABLED SuiteCatch)
  /\ [][(~InSuite /\ suite'.pc = "running") => suite'.k = 1]_vars
  /\ [][(InSuite /\ suite' # suite) =>
          /\ Ended
          /\ benchmark.duration = benchmark.endTime - benchmark.startTime
          /\ pc = "returned" =>
               results' = [results EXCEPT ![IdOf(suite.k)] = benchmark]
          /\ IF suite.k < Len(Benchmarks)
             THEN /\ suite'.pc = "running"
                  /\ suite'.k = suite.k + 1
                  /\ pc' \notin {"idle"}
             ELSE suite'.pc = "deleting"]_vars

\* C14 witness: the 'write' benchmark threw on its final flush, the
\* 'write-overwrite' benchmark after it has been published, and the 'read'
\* benchmark is running.
C14_Witness ==
  /\ InSuite
  /\ suite.k = 4
  /\ logged = <<"write">>
  /\ results["write"] = Null
  /\ IsResult(results["loop"])
  /\ IsResult(results["write-overwrite"])
  /\ results["write-overwrite"].fileCount = 3
  /\ results["read"] = Null

\* C15: at most one suite is in progress: a suite starts only when none is
\* in progress; a drop that arrives while isProcessing is true starts no
\* benchmark and leaves results, stores and handles as they are; and
\* isProcessing is true from the accepted drop until the step that ends the
\* store deletion of its suite.
C15_NoOverlap ==
  /\ [](isProcessing <=> suite.pc # "idle")
  /\ [][(isProcessing /\ nDrops' # nDrops) =>
          UNCHANGED <<results, store, db, suite, pc, call, benchmark, queue,
                      txLog, isProcessing>>]_vars
  /\ [][(suite'.drop # suite.drop /\ suite'.drop # 0) => ~isProcessing]_vars
  /\ [][(isProcessing /\ ~isProcessing') => suite.pc = "deleting"]_vars

\* C15 witness: a second drop arrived while the suite of the first was
\* writing, and the suite of the first went on to its read benchmark.
C15_Witness ==
  /\ isProcessing
  /\ suite.drop = 1
  /\ nDrops = 2
  /\ suite.k = 4
  /\ pc = "chunk"
  /\ IsResult(results["write"])

\* C16: every accepted drop eventually returns the drop zone to idle.
C16_NeverBlocked == isProcessing ~> ~isProcessing

\* A store operation of the benchmark that has ended found a handle: the
\* read benchmark lists the keys in a transaction, and a write benchmark
\* that counted a file has saved a batch in one.
StoreOpsFoundHandle ==
  (call.kind = "read" \/ (call.kind = "write" /\ counted # <<>>))
    => txLog # <<>>

\* C17: in every suite started by a drop, the handle is open when a write
\* or read benchmark calls batchPut, listKeys or batchGet.
C17_HandleOpen == (InSuite /\ Ended) => StoreOpsFoundHandle

\* C18: once a suite has completed, cleanup included, no store holds a
\* record (no platform call having failed).
C18_NoContamination ==
  (nDrops > 0 /\ ~isProcessing /\ nFail = 0) =>
    \A m \in Impls : store[m] = <<>>

\* C19: once an open has failed, no benchmark of the session runs and
\* publishes a result.
C19_OpenFailureFatal ==
  [][mount = "failed" =>
       \A id \in BenchmarkIds :
         IsResult(results'[id]) => results'[id] = results[id]]_vars

\* A loop-only and a write benchmark have run one after the other over the
\* same roots, with the same file and directory calls failing and no
\* transaction failure; the second has ended.
BaselineCase ==
  /\ hist.on
  /\ Ended
  /\ {call.kind, hist.prev.call.kind} = {"loop", "write"}
  /\ call.entries = hist.prev.call.entries
  /\ failed = hist.prev.failed
  /\ NoTxFailure
  /\ PrevNoTxFailure

\* The loop-only call of the pair opened no transaction and left the stores
\* as it found them.
LoopLeftStoreAlone ==
  IF call.kind = "loop"
  THEN txLog = <<>> /\ store = hist.store0
  ELSE hist.prev.txLog = <<>> /\ hist.store0 = hist.prev.store0

\* C21: for the same roots and the same outcomes of the file and directory
\* calls, and no store failure, the loop-only benchmark pops the nodes in the
\* order of the write benchmark and returns the same fileCount, totalSize,
\* errorCount and dirCount, with no store operation and the stores unchanged.
C21_LoopBaseline ==
  BaselineCase =>
    /\ visited = hist.prev.visited
    /\ benchmark.fileCount = hist.prev.benchmark.fileCount
    /\ benchmark.totalSize = hist.prev.benchmark.totalSize
    /\ benchmark.errorCount = hist.prev.benchmark.errorCount
    /\ benchmark.dirCount = hist.prev.benchmark.dirCount
    /\ LoopLeftStoreAlone

\* C21 witness: a write benchmark stored four files of a nested tree in two
\* transactions while one node failed, and the loop-only benchmark after it
\* met the same failure.
C21_Witness ==
  /\ BaselineCase
  /\ call.kind = "loop"
  /\ Cardinality(failed) = 1
  /\ benchmark.errorCount = 1
  /\ benchmark.fileCount = 4
  /\ benchmark.dirCount = 2
  /\ Len(hist.prev.txLog) = 2
  /\ store # hist.prev.store0

\* The sizes of the write transactions the previous call opened, in order.
PrevWriteSizes ==
  LET w == SelectSeq(hist.prev.txLog, LAMBDA x : x.mode = "readwrite")
  IN [k \in 1..Len(w) |-> w[k].n]

\* The scenario: with a threshold of 2, a write benchmark over three root
\* files of 10, 20 and 30 bytes has ended on an open handle with no failure,
\* and a read benchmark of the same adapter after it has ended with none.
ScenarioCase ==
  /\ BATCH_SIZE = 2
  /\ hist.on
  /\ Ended
  /\ call.kind = "read"
  /\ hist.prev.call.kind = "write"
  /\ hist.prev.call.useIDB = call.useIDB
  /\ hist.prev.call.entries = <<fA, fB, fC>>
  /\ db[Impl]
  /\ hist.prev.failed = {}
  /\ PrevNoTxFailure
  /\ NoTxFailure

\* C22: in the scenario the write benchmark returns fileCount = 3,
\* totalSize = 60, errorCount = 0 and dirCount = 0 after exactly two write
\* transactions of 2 and 1 records, and the read benchmark after it returns
\* fileCount = 3 and totalSize = 60.
C22_Scenario ==
  ScenarioCase =>
    /\ hist.prev.pc = "returned"
    /\ hist.prev.benchmark.fileCount = 3
    /\ hist.prev.benchmark.totalSize = 60
    /\ hist.prev.benchmark.errorCount = 0
    /\ hist.prev.benchmark.dirCount = 0
    /\ PrevWriteSizes = <<2, 1>>
    /\ pc = "returned"
    /\ benchmark.fileCount = 3
    /\ benchmark.totalSize = 60

\* C22 witness: the scenario has run on a store that was empty before the
\* write, and the read found the three records.
C22_Witness ==
  /\ ScenarioCase
  /\ hist.prev.store0[Impl] = <<>>
  /\ DOMAIN store[Impl] = {"file-a", "file-b", "file-c"}
  /\ benchmark.errorCount = 0

\* C23: at every point of a write benchmark, also after a flush that failed,
\* the pending batch holds at most BATCH_SIZE records and no write transaction
\* of the run holds more than BATCH_SIZE records.
C23_BatchBounded ==
  call.kind = "write" =>
    /\ Len(currentBatch) <= BATCH_SIZE
    /\ \A k \in 1..Len(WriteSizes) : WriteSizes[k] <= BATCH_SIZE

\* The children enqueued by the first k popped nodes, in the order of their
\* enqueueing: those of every directory whose enumeration has succeeded.
RECURSIVE EnqueuedBy(_)
EnqueuedBy(k) ==
  IF k = 0 THEN <<>>
  ELSE LET e == visited[k]
           enumerated == /\ e.isDirectory
                         /\ k \notin failed
                         /\ (k < Len(visited) \/ pc # "readDir")
       IN EnqueuedBy(k - 1) \o (IF enumerated THEN Concat(e.pages) ELSE <<>>)

\* Everything enqueued so far: the roots, then the children of each
\* directory at the back in the order of enumeration.
Enqueued == call.entries \o EnqueuedBy(Len(visited))

\* The transactions of the call that have not settled.
PendingTxs == {k \in 1..Len(txLog) : txLog[k].outcome = "pending"}

\* C24: in a loop-only or write benchmark the nodes popped so far followed by
\* the queue are the nodes enqueued so far in the order of their enqueueing;
\* at most one transaction is unsettled and it is the last one opened; and
\* while the platform call of a popped node is awaited no transaction is
\* unsettled.
C24_SequentialFifo ==
  (call.kind \in {"loop", "write"} /\ pc # "idle") =>
    /\ visited \o queue = Enqueued
    /\ PendingTxs \subseteq {Len(txLog)}
    /\ pc \in {"getFile", "readDir"} => PendingTxs = {}
    /\ pc \in {"flush", "finalFlush"} => PendingTxs = {Len(txLog)}
    /\ Ended => (queue = <<>> /\ PendingTxs = {})

\* C24 witness: a write benchmark awaits the flush triggered by the fourth
\* node it popped, a root file; the third was a directory whose two children
\* wait at the back of the queue.
C24_Witness ==
  /\ call.kind = "write"
  /\ pc = "flush"
  /\ Len(visited) = 4
  /\ visited[3].isDirectory
  /\ queue = <<fC, fD>>
  /\ Len(txLog) = 1

\* While a directory is enumerated, the entries collected are the pages
\* received so far, concatenated in the order received.
Draining ==
  pc = "readDir" =>
    /\ entry = visited[Len(visited)]
    /\ reader.page <= Len(entry.pages)
    /\ reader.entries = Concat(SubSeq(entry.pages, 1, reader.page))

\* The step that ends an enumeration. The nodes popped followed by the queue
\* do not change when the loop pops its next node, so they change by what the
\* enumeration has enqueued: on success, after every page has been received,
\* all the pages in order; on the failure of a page call, nothing.
EnumerationEnds ==
  (pc = "readDir" /\ (pc' # "readDir" \/ visited' # visited)) =>
    IF failed' # failed
    THEN visited' \o queue' = visited \o queue
    ELSE /\ reader.page = Len(entry.pages)
         /\ visited' \o queue' = (visited \o queue) \o Concat(entry.pages)

\* C25: readDirectoryEntries collects the pages until the empty page and hands
\* over their concatenation in the order received; when a page call fails,
\* none of the directory's children is enqueued, those of the pages already
\* received included.
C25_Drained == []Draining /\ [][EnumerationEnds]_vars

\* C25 witness: a walk has ended in which a directory of two pages was
\* drained, its three children popped in page order after the other root, and
\* the enumeration of its subdirectory failed, whose children were never
\* popped.
C25_Witness ==
  /\ Ended
  /\ call.kind \in {"loop", "write"}
  /\ visited = <<dPaged, fE, fB, dOne, fA>>
  /\ failed = {4}
  /\ benchmark.errorCount = 1
  /\ benchmark.dirCount = 2

\* The File objects of the file nodes of the tree, in the order of the walk.
TreeFiles(roots) ==
  LET fs == FilesIn(Walk(roots, 1, {}))
  IN [k \in 1..Len(fs) |-> FileOf(fs[k])]

TreeKeys(roots) == {Key(TreeFiles(roots)[k]) : k \in 1..Len(TreeFiles(roots))}

\* The last file of the tree, in the order of the walk, that has the key.
LastWithKey(roots, key) ==
  LET fs == TreeFiles(roots)
      k == CHOOSE k \in 1..Len(fs) :
             /\ Key(fs[k]) = key
             /\ \A j \in (k + 1)..Len(fs) : Key(fs[j]) # key
  IN fs[k]

\* A write benchmark has returned on an open handle with no failure of a
\* file, a directory or a transaction.
CleanWrite ==
  /\ hist.on
  /\ pc = "returned"
  /\ call.kind = "write"
  /\ db[Impl]
  /\ failed = {}
  /\ fileErrs = 0
  /\ NoTxFailure

\* The write benchmark before it ran over the same tree with the same
\* adapter, and was as clean.
CleanWriteBefore ==
  /\ hist.prev.pc = "returned"
  /\ hist.prev.call.kind = "write"
  /\ hist.prev.call.useIDB = call.useIDB
  /\ hist.prev.call.entries = call.entries
  /\ hist.prev.failed = {}
  /\ PrevNoTxFailure

\* Every key of the tree holds the last file of its name.
HoldsLastOfName ==
  \A key \in TreeKeys(call.entries) :
    /\ key \in DOMAIN store[Impl]
    /\ store[Impl][key] = LastWithKey(call.entries, key)

\* A second write over the same tree changes no store and counts the same.
RewriteChangesNothing ==
  CleanWriteBefore =>
    /\ store = hist.store0
    /\ benchmark.fileCount = hist.prev.benchmark.fileCount
    /\ benchmark.totalSize = hist.prev.benchmark.totalSize

\* C26 as stated: after a failure-free write benchmark on an open store the
\* keys of the store are exactly "file-" + name over the file names of the
\* tree, each holding the last file of that name in the order of the walk,
\* and a second write over the same tree leaves keys and values unchanged
\* and reports the same fileCount and totalSize.
C26_ExactKeys ==
  CleanWrite =>
    /\ DOMAIN store[Impl] = TreeKeys(call.entries)
    /\ HoldsLastOfName
    /\ RewriteChangesNothing

\* C26 amended: the keys of the store are those it held before the write
\* together with "file-" + name over the file names of the tree; each key of
\* the tree holds the last file of that name, every other record and the
\* store of the other adapter are as before; the second write over the same
\* tree changes nothing and reports the same fileCount and totalSize.
C26_KeysAdded ==
  CleanWrite =>
    /\ DOMAIN store[Impl] = DOMAIN hist.store0[Impl] \cup TreeKeys(call.entries)
    /\ HoldsLastOfName
    /\ \A key \in DOMAIN hist.store0[Impl] \ TreeKeys(call.entries) :
         store[Impl][key] = hist.store0[Impl][key]
    /\ \A m \in Impls \ {Impl} : store[m] = hist.store0[m]
    /\ RewriteChangesNothing

\* C26 witness: two write benchmarks in a row over two files named "a", on a
\* store that held a, b and c: the first replaced the record of "a" by the
\* second file, the other two records stayed, and the second write changed
\* nothing.
C26_Witness ==
  /\ CleanWrite
  /\ CleanWriteBefore
  /\ call.entries = <<fA, fA2>>
  /\ DOMAIN store[Impl] = {"file-a", "file-b", "file-c"}
  /\ store[Impl]["file-a"] = FileOf(fA2)
  /\ hist.prev.store0[Impl]["file-a"] = FileOf(fA)
  /\ store = hist.store0
  /\ benchmark.fileCount = 2

====
